---- MODULE Spec2Model ----
(***************************************************************************)
(* A model of bilibili2mp3 (src/main.py): main() checks the transcoder,    *)
(* resolves the input and output paths, finds the cache entries and calls  *)
(* process_cache on each; process_cache reads entry.json, resolves the     *)
(* audio blob, transcodes it (with one header-stripping retry), and, with  *)
(* --ai, tags and renames the result.                                      *)
(*                                                                         *)
(* Strings are sequences of one-character strings, so that re.sub,         *)
(* str.replace, str.endswith and the f-strings are computed character by   *)
(* character.  The file system is the function `files` from the paths of   *)
(* the output directory to what they hold, plus the temporary file.        *)
(***************************************************************************)
EXTENDS Naturals, Sequences, FiniteSets

VARIABLES
    \* the world main() starts in
    ffmpeg_ok,      \* `ffmpeg -version` exits zero
    argv,           \* the command line: "plain", "ai", "bad" or "help"
    input_exists,   \* os.path.exists(input_path)
    out_dir,        \* the output path: "absent_ok", "absent_fail", "present", "readonly"
    client,         \* the module-level OpenAI client is configured
    io_faults,      \* the environment may raise transient I/O errors
    cache,          \* the cache tree: one fixture per discovered entry
    \* main()
    pc, exit_code, did, use_ai, cache_dirs, idx, count, calls, run,
    \* the file system
    files, temp,
    \* process_cache's locals
    ppc, full_title, audio_path, output_file, result, new_output_file,
    base_new_output_file,
    \* what happened to the entries
    outcome, track, ffcalls, attempts, temp_made, enriched, renamed,
    snapshot, written, written1

world  == <<ffmpeg_ok, argv, input_exists, out_dir, client, io_faults>>
locals == <<ppc, full_title, audio_path, output_file, result, new_output_file,
           base_new_output_file>>
vars == <<ffmpeg_ok, argv, input_exists, out_dir, client, io_faults, cache,
          pc, exit_code, did, use_ai, cache_dirs, idx, count, calls, run,
          files, temp,
          ppc, full_title, audio_path, output_file, result, new_output_file,
          base_new_output_file,
          outcome, track, ffcalls, attempts, temp_made, enriched, renamed,
          snapshot, written, written1>>

----------------------------------------------------------------------------
\* Bounds of the model.

\* the largest number of cache entries the scan finds
MaxEntries == 2
\* the longest entry.json title of the title specification
MaxLen == 2

----------------------------------------------------------------------------
\* Strings.

\* the nine characters of the class [\\/:*?"<>|]
Illegal == {"\\", "/", ":", "*", "?", "\"", "<", ">", "|"}

RECURSIVE SanitizeDropping(_)
\* a sanitiser that deletes the matches instead of replacing them
SanitizeDropping(name) ==
    IF name = <<>> THEN <<>>
    ELSE IF Head(name) \in Illegal THEN SanitizeDropping(Tail(name))
    ELSE <<Head(name)>> \o SanitizeDropping(Tail(name))

RECURSIVE sanitize_filename(_)
\* re.sub(r'[\\/:*?"<>|]', '_', name): every match, left to right, becomes "_"
sanitize_filename(name) ==
    IF name = <<>> THEN <<>>
    ELSE <<IF Head(name) \in Illegal THEN "_" ELSE Head(name)>>
         \o sanitize_filename(Tail(name))

RECURSIVE Replace(_, _, _)
\* s.replace(old, new): every non-overlapping occurrence, left to right
Replace(s, old, new) ==
    IF Len(s) < Len(old) THEN s
    ELSE IF SubSeq(s, 1, Len(old)) = old
         THEN new \o Replace(SubSeq(s, Len(old) + 1, Len(s)), old, new)
         ELSE <<Head(s)>> \o Replace(Tail(s), old, new)

\* s.endswith(suffix)
EndsWith(s, suffix) ==
    /\ Len(s) >= Len(suffix)
    /\ SubSeq(s, Len(s) - Len(suffix) + 1, Len(s)) = suffix

Digit == <<"0", "1", "2", "3", "4", "5", "6", "7", "8", "9">>

RECURSIVE IntToStr(_)
\* f"{counter}": the decimal digits of a natural number
IntToStr(n) ==
    IF n < 10 THEN <<Digit[n + 1]>>
    ELSE IntToStr(n \div 10) \o <<Digit[(n % 10) + 1]>>

\* os.path.join(a, b), POSIX: an absolute b replaces a
Join(a, b) ==
    IF b # <<>> /\ Head(b) = "/" THEN b ELSE a \o <<"/">> \o b

Mp3 == <<".", "m", "p", "3">>
M4s == <<".", "m", "4", "s">>
AudioM4s == <<"a", "u", "d", "i", "o">> \o M4s
ZeroBlv == <<"0", ".", "b", "l", "v">>
VideoM4s == <<"v", "i", "d", "e", "o">> \o M4s
Unknown == <<"U", "n", "k", "n", "o", "w", "n">>
UnknownTitle == Unknown \o <<"_", "T", "i", "t", "l", "e">>
\* os.path.abspath(args.output)
output_path == <<"/", "o">>
\* the directory of the k-th discovered entry
CacheDir(k) == <<"/", "c", "/">> \o IntToStr(k)
\* the name of the only subdirectory listed first, second, ...
SubDir(k) == IntToStr(k)

----------------------------------------------------------------------------
\* The inputs: entry.json, the entry's subdirectories, the audio bytes.

NoPage == [kind |-> "absent", has_part |-> FALSE, part |-> <<>>]
Json(t, p) == [ok |-> TRUE, has_title |-> TRUE, title |-> t, page |-> p]
BadJson == [ok |-> FALSE, has_title |-> FALSE, title |-> <<>>, page |-> NoPage]
PagePart(s) == [kind |-> "object", has_part |-> TRUE, part |-> s]

TitleA == <<"a">>
TitleBS == <<"b", " ", "-", " ", "s">>

\* the entry.json files of the pipeline specifications
Jsons == {BadJson, Json(TitleA, NoPage), Json(TitleBS, NoPage)}

\* the vendor header is nine bytes long (f_in.seek(9))
HeaderLen == 9
Header == [k \in 1..HeaderLen |-> "h"]
Plain == <<"good">>
Headered == Header \o <<"good">>
Trunc == <<"trunc">>
Blobs == {Plain, Headered, Trunc}

\* the subdirectories of an entry, in listing order, each the set of its files
Layouts == { <<{VideoM4s}>>, <<{ZeroBlv}>>, <<{VideoM4s}, {AudioM4s, ZeroBlv}>> }

RECURSIVE FirstAudioAnyM4s(_, _, _)
\* a resolver that takes any .m4s file of a subdirectory for the audio
FirstAudioAnyM4s(dir, layout, k) ==
    IF k > Len(layout) THEN <<>>
    ELSE IF \E f \in layout[k] : EndsWith(f, M4s)
    THEN Join(Join(dir, SubDir(k)), CHOOSE f \in layout[k] : EndsWith(f, M4s))
    ELSE IF ZeroBlv \in layout[k] THEN Join(Join(dir, SubDir(k)), ZeroBlv)
    ELSE FirstAudioAnyM4s(dir, layout, k + 1)

RECURSIVE FirstAudio(_, _, _)
\* the loop of lines 99-108: the first subdirectory, in listing order, that
\* holds audio.m4s or else 0.blv; <<>> when there is none
FirstAudio(dir, layout, k) ==
    IF k > Len(layout) THEN <<>>
    ELSE IF AudioM4s \in layout[k] THEN Join(Join(dir, SubDir(k)), AudioM4s)
    ELSE IF ZeroBlv \in layout[k] THEN Join(Join(dir, SubDir(k)), ZeroBlv)
    ELSE FirstAudio(dir, layout, k + 1)

HasAudio(layout) == \E k \in 1..Len(layout) : layout[k] \cap {AudioM4s, ZeroBlv} # {}

Fixtures ==
    { [json |-> j, layout |-> l, bytes |-> b] :
        j \in Jsons, l \in Layouts, b \in Blobs }

\* the bytes matter only where process_cache gets to read them
Sensible(f) == (f.json.ok /\ HasAudio(f.layout)) \/ f.bytes = Plain

Trees == UNION { [1..n -> {f \in Fixtures : Sensible(f)}] : n \in 0..MaxEntries }

\* what extract_metadata_with_ai may return: None, a JSON value that is no
\* object, or an object with or without the artist and title keys
Meta(a, t) == [kind |-> "dict", has_artist |-> TRUE, artist |-> a, has_title |-> TRUE, title |-> t]
NoMeta == [kind |-> "none", has_artist |-> FALSE, artist |-> <<>>, has_title |-> FALSE, title |-> <<>>]
ListMeta == [kind |-> "list", has_artist |-> FALSE, artist |-> <<>>, has_title |-> FALSE, title |-> <<>>]
Metas ==
    { NoMeta, ListMeta,
      Meta(<<"b">>, <<"s">>),
      [kind |-> "dict", has_artist |-> TRUE, artist |-> <<"?">> \o Mp3,
       has_title |-> FALSE, title |-> <<>>] }

\* the files the output directory may hold before the run
PreExisting == { {}, {Join(output_path, <<"b", " ", "-", " ", "s">> \o Mp3)} }

----------------------------------------------------------------------------
\* The external transcoder and the file system.

NoTemp == [exists |-> FALSE, bytes |-> <<>>]
File(i) == [owner |-> i, tagged |-> FALSE]

\* what ffmpeg makes of an input: "ok", "partial" (it fails half way, an
\* incomplete output file is left) or "fail" (it fails before it writes)
Decode(bytes) ==
    IF bytes # <<>> /\ Head(bytes) = "good" THEN "ok"
    ELSE IF bytes # <<>> /\ Head(bytes) = "trunc" THEN "partial"
    ELSE "fail"

\* f_in.seek(n); f_in.read()
Skip(bytes, n) == SubSeq(bytes, n + 1, Len(bytes))

\* a command without -y: ffmpeg refuses to replace an existing output
CmdKeeping(input, output) == [y |-> FALSE, input |-> input, output |-> output]

\* cmd = ['ffmpeg', '-y', '-i', audio_path, '-vn', ..., output_file]
Cmd(input, output) == [y |-> TRUE, input |-> input, output |-> output]

\* subprocess.run(cmd): the exit status and the output directory afterwards
Ffmpeg(cmd, bytes, i, fs, writable) ==
    LET d == Decode(bytes)
    IN  IF ~writable \/ d = "fail" \/ (~cmd.y /\ cmd.output \in DOMAIN fs)
        THEN [rc |-> 1, files |-> fs, wrote |-> {}]
        ELSE [rc |-> IF d = "ok" THEN 0 ELSE 1,
              files |-> [p \in DOMAIN fs \cup {cmd.output} |->
                            IF p = cmd.output THEN File(i) ELSE fs[p]],
              wrote |-> {cmd.output}]

\* os.rename(src, dst) on paths of the output directory
RenameFile(fs, src, dst) ==
    [p \in (DOMAIN fs \ {src}) \cup {dst} |-> IF p = dst THEN fs[src] ELSE fs[p]]

\* apply_metadata: the ID3 tags are written into the file
Tag(fs, p) ==
    [q \in DOMAIN fs |-> IF q = p THEN [fs[q] EXCEPT !.tagged = TRUE] ELSE fs[q]]

----------------------------------------------------------------------------
\* process_cache's computations.

\* lines 91-95: title, part_name, full_title
FullTitle(j) ==
    LET title == IF j.has_title THEN j.title ELSE UnknownTitle
        part_name == IF j.page.kind = "object" /\ j.page.has_part THEN j.page.part ELSE <<>>
    IN  sanitize_filename(IF part_name # <<>> THEN title \o <<"_">> \o part_name ELSE title)

\* lines 159-161: the path enrichment wants the file to have
NewOutputFile(m) ==
    LET artist == IF m.has_artist THEN m.artist ELSE Unknown
        title == IF m.has_title THEN m.title ELSE Unknown
    IN  Join(output_path, sanitize_filename(artist \o <<" ", "-", " ">> \o title) \o Mp3)

\* base.replace(".mp3", f" ({counter}).mp3")
Numbered(base, counter) ==
    Replace(base, Mp3, <<" ", "(">> \o IntToStr(counter) \o <<")">> \o Mp3)

RECURSIVE RenameTarget(_, _, _, _)
\* the while loop of lines 165-169
RenameTarget(new, base, counter, fs) ==
    IF new \notin DOMAIN fs THEN new
    ELSE RenameTarget(Numbered(base, counter), base, counter + 1, fs)

\* the fallback condition of lines 130-131 without the test of the extension
NeedsFallbackAlways(rc, path) == rc # 0

\* lines 130-131: the fallback runs after a non-zero exit on a .m4s path
NeedsFallback(rc, path) == rc # 0 /\ EndsWith(path, M4s)

\* line 152: use_ai and client
EnrichmentOn(flag, cl) == flag /\ cl

Writable == out_dir = "present"
Faults == IF io_faults THEN BOOLEAN ELSE {FALSE}

----------------------------------------------------------------------------
\* The initial states.

TypicalWorld ==
    /\ ffmpeg_ok \in BOOLEAN
    /\ input_exists \in BOOLEAN
    /\ out_dir \in {"absent_ok", "absent_fail", "present", "readonly"}
    /\ \E pre \in PreExisting :
          files = [p \in (IF out_dir = "present" THEN pre ELSE {}) |-> File(0)]

\* no entry is being processed and none has been
Idle ==
    /\ temp = NoTemp
    /\ ppc = "idle" /\ full_title = <<>> /\ audio_path = <<>> /\ output_file = <<>>
    /\ result = 0 /\ new_output_file = <<>> /\ base_new_output_file = <<>>
    /\ outcome = <<>> /\ track = <<>> /\ ffcalls = 0 /\ attempts = <<>>
    /\ temp_made = FALSE
    /\ enriched = FALSE /\ renamed = FALSE
    /\ count = 0 /\ calls = <<>> /\ idx = 1 /\ run = 1
    /\ snapshot = {} /\ written = {} /\ written1 = {}

Fresh ==
    /\ cache = <<>>
    /\ pc = "start" /\ exit_code = 0 /\ did = {} /\ use_ai = FALSE
    /\ cache_dirs = <<>>
    /\ Idle

Init ==
    /\ TypicalWorld
    /\ client \in BOOLEAN
    /\ argv \in {"plain", "ai", "bad", "help"}
    /\ io_faults = TRUE
    /\ Fresh

----------------------------------------------------------------------------
\* main().

Exit(code, what) ==
    /\ pc' = "exited"
    /\ exit_code' = code
    /\ did' = did \cup what

\* main going on whatever check_ffmpeg returned
AfterCheckLenient(ok) == "parse"

\* lines 191-195: what main does with check_ffmpeg's result
AfterCheck(ok) == IF ok THEN "parse" ELSE "abort"

\* lines 179-185, 191-195: check_ffmpeg, and sys.exit(1) when it fails
CheckFfmpeg ==
    /\ pc = "start"
    /\ IF AfterCheck(ffmpeg_ok) = "abort"
       THEN Exit(1, {"no_ffmpeg"})
       ELSE pc' = AfterCheck(ffmpeg_ok) /\ UNCHANGED <<exit_code, did>>
    /\ UNCHANGED <<world, cache, use_ai, cache_dirs, idx, count, calls, run, files, temp,
                   locals, outcome, track, ffcalls, attempts, temp_made, enriched, renamed,
                   snapshot, written, written1>>

\* lines 197-205: argparse exits 2 on a bad command line and 0 on --help
ParseArgs ==
    /\ pc = "parse"
    /\ IF argv = "bad" THEN Exit(2, {"usage"}) /\ UNCHANGED use_ai
       ELSE IF argv = "help" THEN Exit(0, {"help"}) /\ UNCHANGED use_ai
       ELSE /\ use_ai' = (argv = "ai")
            /\ pc' = "input"
            /\ UNCHANGED <<exit_code, did>>
    /\ UNCHANGED <<world, cache, cache_dirs, idx, count, calls, run, files, temp,
                   locals, outcome, track, ffcalls, attempts, temp_made, enriched, renamed,
                   snapshot, written, written1>>

\* lines 207-209
CheckInput ==
    /\ pc = "input"
    /\ IF input_exists
       THEN pc' = "output" /\ UNCHANGED <<exit_code, did>>
       ELSE Exit(1, {"no_input"})
    /\ UNCHANGED <<world, cache, use_ai, cache_dirs, idx, count, calls, run, files, temp,
                   locals, outcome, track, ffcalls, attempts, temp_made, enriched, renamed,
                   snapshot, written, written1>>

\* a main that also gives up on an output directory it cannot write to
OutputFatalOrReadonly(o) == o \in {"absent_fail", "readonly"}

\* lines 214-220: only a failing os.makedirs is fatal
OutputFatal(o) == o = "absent_fail"

\* lines 214-220: os.makedirs when the output path does not exist
MakeOutput ==
    /\ pc = "output"
    /\ IF OutputFatal(out_dir)
       THEN Exit(1, {"no_output"}) /\ UNCHANGED out_dir
       ELSE IF out_dir = "absent_ok"
       THEN /\ out_dir' = "present"
            /\ pc' = "scan"
            /\ UNCHANGED <<exit_code, did>>
       ELSE pc' = "scan" /\ UNCHANGED <<exit_code, did, out_dir>>
    /\ UNCHANGED <<ffmpeg_ok, argv, input_exists, client, io_faults, cache,
                   use_ai, cache_dirs, idx, count, calls, run, files, temp,
                   locals, outcome, track, ffcalls, attempts, temp_made, enriched, renamed,
                   snapshot, written, written1>>

\* lines 222-229: find_bilibili_cache; the first run reads the tree, a later
\* run finds it unchanged
Scan ==
    /\ pc = "scan"
    /\ \E t \in (IF run = 1 THEN Trees ELSE {cache}) :
          /\ cache' = t
          /\ cache_dirs' = [k \in 1..Len(t) |-> CacheDir(k)]
          /\ IF Len(t) = 0
             THEN Exit(0, {"no_entries"})
             ELSE /\ pc' = "loop"
                  /\ UNCHANGED <<exit_code, did>>
    /\ idx' = 1 /\ count' = 0
    /\ UNCHANGED <<world, use_ai, calls, run, files, temp,
                   locals, outcome, track, ffcalls, attempts, temp_made, enriched, renamed,
                   snapshot, written, written1>>

\* lines 236-237: the loop is over, the summary is printed, main returns
Summary ==
    /\ pc = "loop" /\ ppc = "idle"
    /\ idx > Len(cache_dirs)
    /\ Exit(0, {"summary"})
    /\ UNCHANGED <<world, cache, use_ai, cache_dirs, idx, count, calls, run, files, temp,
                   locals, outcome, track, ffcalls, attempts, temp_made, enriched, renamed,
                   snapshot, written, written1>>

----------------------------------------------------------------------------
\* process_cache(cache_dirs[idx], output_path, use_ai).

\* what no step of process_cache changes
outside == <<world, cache, use_ai, cache_dirs, run, snapshot, written1>>

\* the locals of a call that is over
Forgotten ==
    /\ ppc' = "idle" /\ full_title' = <<>> /\ audio_path' = <<>> /\ output_file' = <<>>
    /\ result' = 0 /\ new_output_file' = <<>> /\ base_new_output_file' = <<>>

\* a process_cache whose handler of line 176 lets the exception through:
\* main dies of it with a traceback and the exit status 1
ReturnRaising(o, p) ==
    /\ outcome' = Append(outcome, o)
    /\ track' = Append(track, p)
    /\ Forgotten
    /\ IF o = "error"
       THEN /\ pc' = "exited" /\ exit_code' = 1 /\ did' = {"traceback"}
            /\ UNCHANGED <<count, idx>>
       ELSE /\ count' = count + 1
            /\ idx' = idx + 1
            /\ UNCHANGED <<pc, exit_code, did>>

\* lines 112, 147, 176-177 and the end of process_cache: it returns, whatever
\* happened, and the loop of main goes on with count += 1 (line 234)
Return(o, p) ==
    /\ outcome' = Append(outcome, o)
    /\ track' = Append(track, p)
    /\ Forgotten
    /\ count' = count + 1
    /\ idx' = idx + 1
    /\ UNCHANGED <<pc, exit_code, did>>

\* process_cache goes on to its next step
Goes(to) ==
    /\ ppc' = to
    /\ UNCHANGED <<idx, count, outcome, track, pc, exit_code, did>>

\* lines 232-233, 85-95: the call, json.load, the title
ReadEntry ==
    /\ pc = "loop" /\ ppc = "idle"
    /\ idx <= Len(cache_dirs)
    /\ calls' = Append(calls, cache_dirs[idx])
    /\ ffcalls' = 0 /\ attempts' = <<>>
    /\ temp_made' = FALSE /\ enriched' = FALSE /\ renamed' = FALSE
    /\ LET j == cache[idx].json
       IN  IF ~j.ok \/ j.page.kind = "null"
           THEN Return("error", <<>>)
           ELSE /\ full_title' = FullTitle(j)
                /\ Goes("find")
                /\ UNCHANGED <<audio_path, output_file, result, new_output_file,
                               base_new_output_file>>
    /\ UNCHANGED <<outside, files, temp, written>>

\* lines 97-114: the audio blob is resolved, or the entry is skipped
FindAudio ==
    /\ ppc = "find"
    /\ LET a == FirstAudio(cache_dirs[idx], cache[idx].layout, 1)
       IN  IF a = <<>>
           THEN Return("skip", <<>>)
           ELSE /\ audio_path' = a
                /\ output_file' = Join(output_path, full_title \o Mp3)
                /\ Goes("primary")
                /\ UNCHANGED <<full_title, result, new_output_file, base_new_output_file>>
    /\ UNCHANGED <<outside, calls, files, temp, written,
                   ffcalls, attempts, temp_made, enriched, renamed>>

\* lines 119-131: the primary attempt; subprocess.run may itself raise
Primary ==
    /\ ppc = "primary"
    /\ ffcalls' = ffcalls + 1
    /\ \E fault \in Faults :
          IF fault
          THEN Return("error", <<>>) /\ UNCHANGED <<files, written, attempts>>
          ELSE LET r == Ffmpeg(Cmd(audio_path, output_file), cache[idx].bytes, idx,
                               files, Writable)
               IN  /\ result' = r.rc
                   /\ attempts' = Append(attempts, r.rc)
                   /\ files' = r.files
                   /\ written' = written \cup r.wrote
                   /\ Goes(IF NeedsFallback(r.rc, audio_path) THEN "copy" ELSE "check")
                   /\ UNCHANGED <<full_title, audio_path, output_file, new_output_file,
                                  base_new_output_file>>
    /\ UNCHANGED <<outside, calls, temp, temp_made, enriched, renamed>>

\* lines 132-137: the blob is copied to temp_audio.m4s without its header;
\* open(audio_path) may raise before the copy exists, read or write after
CopyBlob ==
    /\ ppc = "copy"
    /\ \E fault \in (IF io_faults THEN {"none", "before", "after"} ELSE {"none"}) :
          IF fault = "before"
          THEN Goes("check") /\ UNCHANGED <<temp, temp_made>>
          ELSE IF fault = "after"
          THEN /\ temp' = [exists |-> TRUE, bytes |-> <<>>]
               /\ temp_made' = TRUE
               /\ Goes("check")
          ELSE /\ temp' = [exists |-> TRUE, bytes |-> Skip(cache[idx].bytes, HeaderLen)]
               /\ temp_made' = TRUE
               /\ Goes("retry")
    /\ UNCHANGED <<outside, calls, files, written, ffcalls, attempts, enriched, renamed,
                   full_title, audio_path, output_file, result, new_output_file,
                   base_new_output_file>>

\* lines 139-140: cmd[3] = temp_audio and the second attempt
Retry ==
    /\ ppc = "retry"
    /\ ffcalls' = ffcalls + 1
    /\ \E fault \in Faults :
          IF fault
          THEN Goes("check") /\ UNCHANGED <<result, files, written, attempts>>
          ELSE LET r == Ffmpeg(Cmd(<<"temp">>, output_file), temp.bytes, idx, files, Writable)
               IN  /\ result' = r.rc
                   /\ attempts' = Append(attempts, r.rc)
                   /\ files' = r.files
                   /\ written' = written \cup r.wrote
                   /\ Goes("remove")
    /\ UNCHANGED <<outside, calls, temp, temp_made, enriched, renamed,
                   full_title, audio_path, output_file, new_output_file,
                   base_new_output_file>>

\* line 141: os.remove(temp_audio), which may raise
RemoveTemp ==
    /\ ppc = "remove"
    /\ \E fault \in Faults :
          IF fault THEN UNCHANGED temp ELSE temp' = NoTemp
    /\ Goes("check")
    /\ UNCHANGED <<outside, calls, files, written, ffcalls, attempts, temp_made, enriched,
                   renamed, full_title, audio_path, output_file, result, new_output_file,
                   base_new_output_file>>

\* lines 145-152: a non-zero result is the entry's failure; enrichment follows
\* a conversion only with use_ai and a client
CheckResult ==
    /\ ppc = "check"
    /\ IF result # 0
       THEN Return("failed", <<>>)
       ELSE IF EnrichmentOn(use_ai, client)
       THEN /\ Goes("enrich")
            /\ UNCHANGED <<full_title, audio_path, output_file, result, new_output_file,
                           base_new_output_file>>
       ELSE Return("ok", output_file)
    /\ UNCHANGED <<outside, calls, files, temp, written, ffcalls, attempts, temp_made,
                   enriched, renamed>>

\* lines 153-169: the metadata is asked for, written and the new name chosen
Enrich ==
    /\ ppc = "enrich"
    /\ enriched' = TRUE
    /\ \E m \in Metas :
          IF m.kind = "none"
          THEN Return("ok", output_file) /\ UNCHANGED files
          ELSE IF m.kind = "list"
          THEN Return("error", <<>>) /\ UNCHANGED files
          ELSE /\ files' = Tag(files, output_file)
               /\ IF NewOutputFile(m) = output_file
                  THEN Return("ok", output_file)
                  ELSE /\ base_new_output_file' = NewOutputFile(m)
                       /\ new_output_file' =
                             RenameTarget(NewOutputFile(m), NewOutputFile(m), 1, files)
                       /\ Goes("rename")
                       /\ UNCHANGED <<full_title, audio_path, output_file, result>>
    /\ UNCHANGED <<outside, calls, temp, written, ffcalls, attempts, temp_made, renamed>>

\* lines 171-175: os.rename, whose failure is printed
Rename ==
    /\ ppc = "rename"
    /\ \E fault \in Faults :
          IF fault
          THEN Return("ok", output_file) /\ UNCHANGED <<files, renamed>>
          ELSE /\ files' = RenameFile(files, output_file, new_output_file)
               /\ renamed' = TRUE
               /\ Return("ok", new_output_file)
    /\ UNCHANGED <<outside, calls, temp, written, ffcalls, attempts, temp_made, enriched>>

----------------------------------------------------------------------------
\* The specifications.

Next ==
    \/ CheckFfmpeg \/ ParseArgs \/ CheckInput \/ MakeOutput \/ Scan \/ Summary
    \/ ReadEntry \/ FindAudio \/ Primary \/ CopyBlob \/ Retry \/ RemoveTemp
    \/ CheckResult \/ Enrich \/ Rename

\* one run of main() on any command line
Spec == Init /\ [][Next]_vars

\* main() is run again on the same cache tree and the same output directory
Rerun ==
    /\ pc = "exited" /\ run = 1
    /\ run' = 2
    /\ pc' = "start" /\ exit_code' = 0 /\ did' = {} /\ use_ai' = FALSE
    /\ cache_dirs' = <<>> /\ idx' = 1 /\ count' = 0 /\ calls' = <<>>
    /\ outcome' = <<>> /\ track' = <<>>
    /\ ffcalls' = 0 /\ attempts' = <<>>
    /\ temp_made' = FALSE /\ enriched' = FALSE /\ renamed' = FALSE
    /\ snapshot' = DOMAIN files
    /\ written1' = written
    /\ written' = {}
    /\ UNCHANGED <<world, cache, files, temp, locals>>

InitTwice ==
    /\ TypicalWorld
    /\ client = TRUE
    /\ argv = "plain"
    /\ io_faults = FALSE
    /\ Fresh

NextTwice ==
    \/ CheckFfmpeg \/ ParseArgs \/ CheckInput \/ MakeOutput \/ Scan \/ Summary
    \/ ReadEntry \/ FindAudio \/ Primary \/ CopyBlob \/ Retry \/ RemoveTemp
    \/ CheckResult \/ Rerun

\* two runs of main() without --ai where no transient error is raised
SpecTwice == InitTwice /\ [][NextTwice]_vars

\* the characters of the titles of the title specification
Alphabet == Illegal \cup {"a", "_"}
Titles == UNION { [1..n -> Alphabet] : n \in 0..MaxLen }
Pages ==
    { NoPage,
      [kind |-> "null", has_part |-> FALSE, part |-> <<>>],
      [kind |-> "object", has_part |-> FALSE, part |-> <<>>],
      PagePart(<<>>), PagePart(<<"p">>), PagePart(<<"?", "p">>) }
TitleJsons ==
    {BadJson}
    \cup { Json(t, p) : t \in Titles, p \in Pages }
    \cup { [ok |-> TRUE, has_title |-> FALSE, title |-> <<>>, page |-> p] : p \in Pages }

\* process_cache is about to be called on one entry of any title and part
InitTitle ==
    /\ ffmpeg_ok = TRUE /\ argv = "plain" /\ input_exists = TRUE
    /\ out_dir = "present" /\ client = FALSE /\ io_faults = FALSE
    /\ files = [p \in {} |-> File(0)]
    /\ \E j \in TitleJsons : cache = <<[json |-> j, layout |-> <<>>, bytes |-> Plain]>>
    /\ cache_dirs = <<CacheDir(1)>>
    /\ pc = "loop" /\ exit_code = 0 /\ did = {} /\ use_ai = FALSE
    /\ Idle

SpecTitle == InitTitle /\ [][ReadEntry]_vars

----------------------------------------------------------------------------
\* The claims.

\* the entry processed last, once its processing is over
Last == Len(outcome)
EntryEnded == ppc = "idle" /\ Len(outcome) > 0

\* C1: after any sequence of entries, every entry whose processing succeeded
\* has a path of its own in the output directory, and the file at that path
\* is still the one that entry produced.
C1_DistinctTracks ==
    \A i \in 1..Len(outcome) :
        outcome[i] = "ok" =>
            /\ track[i] \in DOMAIN files
            /\ files[track[i]].owner = i
            /\ \A j \in 1..Len(outcome) :
                  (j # i /\ outcome[j] = "ok") => track[j] # track[i]

\* C2 as stated: whatever list the scan found, main ends at the final summary
\* with process_cache called once on every entry, in order.
C2_Original ==
    (pc = "exited" /\ did \cap {"no_entries", "summary", "traceback"} # {}) =>
        ("summary" \in did /\ calls = cache_dirs)

\* C2: whatever non-empty list the scan found and whatever fails in an entry,
\* the calls of process_cache are a prefix of the list at every moment, the
\* loop is never left before the list is exhausted, and main ends at the
\* final summary with exactly one call per entry, in discovery order.
C2_EveryEntryOnce ==
    /\ Len(calls) <= Len(cache_dirs)
    /\ calls = SubSeq(cache_dirs, 1, Len(calls))
    /\ pc = "loop" =>
          /\ Len(outcome) = idx - 1
          /\ Len(calls) = (IF ppc = "idle" THEN idx - 1 ELSE idx)
    /\ (pc = "exited" /\ cache_dirs # <<>>) =>
          /\ did = {"summary"}
          /\ exit_code = 0
          /\ calls = cache_dirs
          /\ Len(outcome) = Len(cache_dirs)
          /\ count = Len(cache_dirs)

C2_FailuresThenSummary ==
    /\ pc = "exited" /\ "summary" \in did
    /\ Len(outcome) = 2 /\ outcome[1] = "error" /\ outcome[2] = "failed"

C4_TempGone ==
    (EntryEnded /\ temp_made) => ~temp.exists

\* C5: the fallback is reached only after a non-zero primary attempt on a
\* .m4s path and before any second invocation, the transcoder is invoked at
\* most twice for an entry, enrichment follows only a zero exit status, and an
\* entry whose last exit status is non-zero ends failed, neither enriched nor
\* renamed.
C5_FallbackOnce ==
    /\ ffcalls <= 2
    /\ Len(attempts) <= ffcalls
    /\ ppc \in {"copy", "retry", "remove"} =>
          /\ EndsWith(audio_path, M4s)
          /\ attempts # <<>> /\ attempts[1] # 0
    /\ ppc \in {"copy", "retry"} => ffcalls = 1
    /\ ppc \in {"enrich", "rename"} =>
          attempts # <<>> /\ attempts[Len(attempts)] = 0
    /\ (EntryEnded /\ attempts # <<>> /\ attempts[Len(attempts)] # 0) =>
          /\ outcome[Last] = "failed"
          /\ ~enriched
          /\ ~renamed

C5_BothAttemptsFail ==
    /\ EntryEnded /\ outcome[Last] = "failed"
    /\ ffcalls = 2 /\ attempts = <<1, 1>>

\* the target the claim describes: the wanted path when it is free, else the
\* path with " (k)" before its extension for the smallest free k >= 1
ClaimedTarget(base, fs) ==
    LET stem == SubSeq(base, 1, Len(base) - Len(Mp3))
        Cand(k) == stem \o <<" ", "(">> \o IntToStr(k) \o <<")">> \o Mp3
        k0 == CHOOSE k \in 1..(Cardinality(DOMAIN fs) + 1) :
                 /\ Cand(k) \notin DOMAIN fs
                 /\ \A m \in 1..(k - 1) : Cand(m) \in DOMAIN fs
    IN  IF base \notin DOMAIN fs THEN base ELSE Cand(k0)

\* C6: at the moment of a rename the target is `Artist - Title.mp3` when that
\* is free, else `Artist - Title (k).mp3` for the smallest free k >= 1, and
\* no file exists at the target.
C6_TargetAsClaimed ==
    ppc = "rename" =>
        /\ new_output_file = ClaimedTarget(base_new_output_file, files)
        /\ new_output_file \notin DOMAIN files

\* C7: while the transcoder is missing the only step main ever takes is the
\* abort with a non-zero exit status: no argument is parsed, the output
\* directory is not created, nothing is scanned and nothing is converted.
C7_CheckFirst ==
    [][ ~ffmpeg_ok =>
          /\ pc = "start" /\ pc' = "exited" /\ exit_code' # 0
          /\ UNCHANGED <<world, cache, use_ai, cache_dirs, idx, count, calls,
                         files, temp, locals, outcome, track, ffcalls, attempts,
                         written>> ]_vars

C7_Aborted ==
    /\ pc = "exited" /\ ~ffmpeg_ok /\ exit_code = 1
    /\ argv = "ai" /\ input_exists /\ out_dir = "absent_ok"

\* the entry main is at has no audio.m4s and no 0.blv in any subdirectory
NoAudioNow ==
    /\ pc = "loop" /\ idx <= Len(cache_dirs)
    /\ ~HasAudio(cache[idx].layout)

ClaimChars == {"\\", "/", ":", "*", "?", "\"", "<", ">", "|"}

\* title and part as the claim composes them
Composed(j) ==
    IF j.page.kind = "object" /\ j.page.has_part /\ j.page.part # <<>>
    THEN j.title \o <<"_">> \o j.page.part
    ELSE j.title

C10_SecondRunSameFiles ==
    run = 2 =>
        /\ ~use_ai
        /\ DOMAIN files = snapshot
        /\ written \subseteq written1
        /\ pc = "exited" => written = written1

C10_TwoFilesRewritten ==
    /\ run = 2 /\ pc = "exited" /\ "summary" \in did
    /\ Cardinality(written) = 2 /\ snapshot = written
    /\ outcome = <<"ok", "failed">>

====
